---- MODULE Spec2Model ----
(***************************************************************************)
(* Model of src/src/parser/query_api.go: the time-bound extractor getTime  *)
(* (two passes over a WHERE condition tree that lives on the heap) and the *)
(* column-reference resolver GetReferencedColumns.                         *)
(*                                                                         *)
(* Go strings are modelled as sequences of byte codes, so that splitting   *)
(* at the last ".", concatenation and sort.Strings are computed the way    *)
(* the code computes them.                                                 *)
(***************************************************************************)
EXTENDS Integers, Sequences, FiniteSets, TLC

VARIABLES
    heap,           \* the WhereCondition nodes, by pointer
    parsed,         \* the heap as the parser built it (never written)
    condition,      \* the query's WHERE condition (a pointer, NIL if none)
    query,          \* the from clause, projected columns and GROUP BY
    startResult,    \* what getTime(condition, true) returned
    endResult,      \* what getTime(condition, false) returned
    columnsResult,  \* what GetReferencedColumns returned
    parseTimeValue, \* the value parseTime is called on
    parseTimeResult \* what parseTime(parseTimeValue) returned

vars == <<heap, parsed, condition, query, startResult, endResult, columnsResult,
          parseTimeValue, parseTimeResult>>

----------------------------------------------------------------------------
(* Bounds of the model *)

\* the largest number of comparison leaves of a generated WHERE tree
MaxLeaves == 3

\* the largest number of leaves of a generated WHERE tree that holds
\* malformed leaves
MaxErrorLeaves == 2

\* the largest nesting depth of a generated time expression
MaxDepth == 1

\* the largest number of tables of a generated from clause
MaxTables == 2

\* the largest number of projected columns of a generated query
MaxColumns == 2

----------------------------------------------------------------------------
(* Strings (byte sequences) used by the code and by the generated queries *)

s_time == <<116, 105, 109, 101>>
s_gt == <<62>>
s_lt == <<60>>
s_eq == <<61>>
s_ne == <<60, 62>>
s_plus == <<43>>
s_minus == <<45>>
s_times == <<42>>
s_now == <<110, 111, 119>>
s_AND == <<65, 78, 68>>
s_OR == <<79, 82>>
s_sequence_number == <<115, 101, 113, 117, 101, 110, 99, 101, 95, 110, 117, 109, 98, 101, 114>>
s_host == <<104, 111, 115, 116>>
s_value == <<118, 97, 108, 117, 101>>
s_count == <<99, 111, 117, 110, 116>>
s_a == <<97>>
s_b == <<98>>
s_x == <<120>>
s_y == <<121>>
s_x_host == <<120, 46, 104, 111, 115, 116>>
s_c_d == <<99, 46, 100>>
s_regex == <<97, 46, 42>>
s_1 == <<49>>
s_srv1 == <<115, 114, 118, 49>>
s_1u == <<49, 117>>
s_2u == <<50, 117>>
s_1s == <<49, 115>>
s_2s == <<50, 115>>

----------------------------------------------------------------------------
(* Expression values *)

mkValue(type, name, elems) == [Type |-> type, Name |-> name, Elems |-> elems]

SimpleName(name) == mkValue("ValueSimpleName", name, <<>>)
Duration(name) == mkValue("ValueDuration", name, <<>>)
StringLit(name) == mkValue("ValueString", name, <<>>)
Expression(op, l, r) == mkValue("ValueExpression", op, <<l, r>>)

TableName(name) == mkValue("ValueTableName", name, <<>>)
Regex(name) == mkValue("ValueRegex", name, <<>>)
IntLit(name) == mkValue("ValueInt", name, <<>>)
Wildcard == mkValue("ValueWildcard", <<42>>, <<>>)
FunctionCall(name, elems) == mkValue("ValueFunctionCall", name, elems)

NoValue == mkValue("none", <<>>, <<>>)

----------------------------------------------------------------------------
(* time.Time: seconds and nanoseconds since the epoch and the location     *)
(* pointer; Go's != on time.Time compares all of them.                     *)

Second == 1000000000

mkTime(sec, nsec, loc) == [sec |-> sec, nsec |-> nsec, loc |-> loc]

\* Go's integer division and remainder truncate toward zero
GoDiv(a, b) == IF a >= 0 THEN a \div b ELSE -((-a) \div b)
GoMod(a, b) == a - b * GoDiv(a, b)

\* time.Unix(sec, nsec): nsec outside [0, 1e9) is normalised; location Local
Unix(sec, nsec) ==
    LET n == GoDiv(nsec, Second)
        s1 == IF nsec < 0 \/ nsec >= Second THEN sec + n ELSE sec
        n1 == IF nsec < 0 \/ nsec >= Second THEN nsec - n * Second ELSE nsec
    IN IF n1 < 0 THEN mkTime(s1 - 1, n1 + Second, "Local")
                 ELSE mkTime(s1, n1, "Local")

\* Time.UTC(): the same instant with the UTC location
UTC(t) == [t EXCEPT !.loc = "UTC"]

ZERO_TIME == Unix(0, 0)

\* the instant as a nanosecond count (Time.UnixNano)
UnixNano(t) == t.sec * Second + t.nsec

----------------------------------------------------------------------------
(* Errors: the empty string is Go's nil error *)

NoErr == ""
ErrInvalidWhere == "Invalid where expression"
ErrInvalidTimeCondition == "Invalid time condition"
ErrCannotUseTimeWith == "Cannot use time with operator"
ErrOrTime == "Invalid where clause, time must appear twice to specify start and end time"
ErrInvalidFunction == "Invalid use of function"
ErrInvalidTimeString == "isn't a valid time string"
ErrInvalidDuration == "invalid duration"
ErrTimeExpression == "Cannot use operator in a time expression"

----------------------------------------------------------------------------
(* The time-expression evaluator *)

IsDigit(b) == b >= 48 /\ b <= 57

RECURSIVE DigitsValue(_)
\* the decimal value of a sequence of digit bytes
DigitsValue(bs) ==
    IF bs = <<>> THEN 0
    ELSE 10 * DigitsValue(SubSeq(bs, 1, Len(bs) - 1)) + (bs[Len(bs)] - 48)

\* common.ParseTimeDuration: digits followed by a unit suffix, to nanoseconds
\* ("u" microseconds, "s" seconds); anything else is not a duration
ParseTimeDuration(name) ==
    LET n == Len(name)
        digits == SubSeq(name, 1, n - 1)
    IN IF n < 2 \/ \E i \in 1..(n - 1) : ~IsDigit(digits[i])
       THEN [val |-> 0, err |-> ErrInvalidDuration]
       ELSE IF name[n] = 117 THEN [val |-> DigitsValue(digits) * 1000, err |-> NoErr]
       ELSE IF name[n] = 115 THEN [val |-> DigitsValue(digits) * Second, err |-> NoErr]
       ELSE [val |-> 0, err |-> ErrInvalidDuration]

IsFunctionCall(value) == value.Type = "ValueFunctionCall"

\* lines 207-211: parseTimeString on a string that time_regex does not
\* match.  The generated queries hold no date strings (the only string is
\* 'srv1'), so the branches that call time.Parse are not modelled.
parseTimeString(t) == [time |-> ZERO_TIME, err |-> ErrInvalidTimeString]

RECURSIVE parseTime(_, _)
\* the difference computed as a sum
parseTimeMinusAdds(value, now) ==
    IF value.Type # "ValueExpression"
    THEN IF IsFunctionCall(value) /\ value.Name = <<110, 111, 119>>
         THEN [val |-> now, err |-> NoErr]
         ELSE IF IsFunctionCall(value)
         THEN [val |-> 0, err |-> ErrInvalidFunction]
         ELSE IF value.Type = "ValueString"
         THEN [val |-> UnixNano(parseTimeString(value.Name).time),
               err |-> parseTimeString(value.Name).err]
         ELSE ParseTimeDuration(value.Name)
    ELSE LET leftValue == parseTime(value.Elems[1], now)
             rightValue == parseTime(value.Elems[2], now)
         IN IF leftValue.err # NoErr THEN [val |-> 0, err |-> leftValue.err]
            ELSE IF rightValue.err # NoErr THEN [val |-> 0, err |-> rightValue.err]
            ELSE IF value.Name = <<43>> \/ value.Name = <<45>>
            THEN [val |-> leftValue.val + rightValue.val, err |-> NoErr]
            ELSE [val |-> 0, err |-> ErrTimeExpression]

\* parseTime(value): now is the reading of time.Now().UnixNano()
parseTime(value, now) ==
    IF value.Type # "ValueExpression"
    THEN IF IsFunctionCall(value) /\ value.Name = <<110, 111, 119>>
         THEN [val |-> now, err |-> NoErr]
         ELSE IF IsFunctionCall(value)
         THEN [val |-> 0, err |-> ErrInvalidFunction]
         ELSE IF value.Type = "ValueString"
         THEN [val |-> UnixNano(parseTimeString(value.Name).time),
               err |-> parseTimeString(value.Name).err]
         ELSE ParseTimeDuration(value.Name)
    ELSE LET leftValue == parseTime(value.Elems[1], now)
             rightValue == parseTime(value.Elems[2], now)
         IN IF leftValue.err # NoErr THEN [val |-> 0, err |-> leftValue.err]
            ELSE IF rightValue.err # NoErr THEN [val |-> 0, err |-> rightValue.err]
            ELSE IF value.Name = <<43>>
            THEN [val |-> leftValue.val + rightValue.val, err |-> NoErr]
            ELSE IF value.Name = <<45>>
            THEN [val |-> leftValue.val - rightValue.val, err |-> NoErr]
            ELSE [val |-> 0, err |-> ErrTimeExpression]

isNumericValue(value) ==
    value.Type \in {"ValueDuration", "ValueFloat", "ValueInt", "ValueString"}

----------------------------------------------------------------------------
(* The WHERE condition tree.  A *WhereCondition is an index into heap; NIL *)
(* is the nil pointer.  A leaf holds its boolean expression, an interior   *)
(* node an Operation and the pointers Left and Right.                      *)

NIL == 0

LeafNode(expr) ==
    [isBooleanExpression |-> TRUE, expr |-> expr,
     Left |-> NIL, Operation |-> <<>>, Right |-> NIL]

InteriorNode(op, l, r) ==
    [isBooleanExpression |-> FALSE, expr |-> NoValue,
     Left |-> l, Operation |-> op, Right |-> r]

\* what getTime returns, together with the heap it leaves behind
Ret(cond, t, err, h) == [cond |-> cond, time |-> t, err |-> err, heap |-> h]

\* lines 373-387: which operand of the comparison is the time column
timeSides(expr) ==
    LET leftValue == expr.Elems[1]
        rightValue == expr.Elems[2]
        l0 == leftValue.Type # "ValueExpression" /\ leftValue.Type # "ValueFunctionCall"
        r0 == rightValue.Type # "ValueExpression" /\ rightValue.Type # "ValueFunctionCall"
    IN IF l0 /\ r0
       THEN IF isNumericValue(rightValue)
            THEN [isTimeOnLeft |-> TRUE, isTimeOnRight |-> FALSE]
            ELSE [isTimeOnLeft |-> FALSE, isTimeOnRight |-> TRUE]
       ELSE [isTimeOnLeft |-> l0, isTimeOnRight |-> r0]

\* the "<" case tested like the ">" case
leavesInPlaceNotInverted(op, isParsingStartTime, isTimeOnLeft, isTimeOnRight) ==
    (isParsingStartTime /\ ~isTimeOnLeft) \/ (~isParsingStartTime /\ ~isTimeOnRight)

\* lines 412-419: TRUE when a ">" or "<" leaf is left in place by this pass
leavesInPlace(op, isParsingStartTime, isTimeOnLeft, isTimeOnRight) ==
    IF op = s_gt
    THEN (isParsingStartTime /\ ~isTimeOnLeft) \/ (~isParsingStartTime /\ ~isTimeOnRight)
    ELSE (~isParsingStartTime /\ ~isTimeOnLeft) \/ (isParsingStartTime /\ ~isTimeOnRight)

\* every operator taken for a bound
isBoundOperatorAny(op) == TRUE

\* lines 412 and 416: the cases ">" and "<" of the switch on expr.Name
isBoundOperator(op) == op = s_gt \/ op = s_lt

\* lines 420-426: the "=" case
equalityCase(h, c, timeExpression, now) ==
    LET pt == parseTime(timeExpression, now)
        microseconds == pt.val
        nanoseconds == microseconds * 1000
    IN IF pt.err # NoErr
       THEN Ret(NIL, ZERO_TIME, pt.err, h)
       ELSE Ret(c, UTC(Unix(GoDiv(nanoseconds, Second), GoMod(nanoseconds, Second))),
                NoErr, h)

\* lines 431-435: a consumed ">" or "<" leaf
consumedCase(h, timeExpression, now) ==
    LET pt == parseTime(timeExpression, now)
        nanoseconds == pt.val
    IN IF pt.err # NoErr
       THEN Ret(NIL, ZERO_TIME, pt.err, h)
       ELSE Ret(NIL, UTC(Unix(GoDiv(nanoseconds, Second), GoMod(nanoseconds, Second))),
                NoErr, h)

\* lines 363-436: getTime on a leaf
getTimeLeaf(h, c, isParsingStartTime, now) ==
    LET expr == h[c].expr IN
    IF expr.Type \in {"ValueDuration", "ValueFloat", "ValueInt", "ValueString",
                      "ValueWildcard"}
    THEN Ret(NIL, ZERO_TIME, ErrInvalidWhere, h)
    ELSE IF expr.Type = "ValueFunctionCall"
    THEN Ret(c, ZERO_TIME, NoErr, h)
    ELSE
    LET leftValue == expr.Elems[1]
        rightValue == expr.Elems[2]
        sides == timeSides(expr)
        isTimeOnLeft == sides.isTimeOnLeft
        isTimeOnRight == sides.isTimeOnRight
        timeExpression == IF ~isTimeOnRight THEN rightValue ELSE leftValue
    IN IF ~isTimeOnLeft /\ ~isTimeOnRight
       THEN Ret(c, ZERO_TIME, NoErr, h)
       ELSE IF ~isTimeOnRight /\ leftValue.Name # s_time
       THEN Ret(c, ZERO_TIME, NoErr, h)
       ELSE IF isTimeOnRight /\ ~isTimeOnLeft /\ rightValue.Name # s_time
       THEN Ret(c, ZERO_TIME, NoErr, h)
       ELSE IF isTimeOnRight /\ isTimeOnLeft
       THEN Ret(NIL, ZERO_TIME, ErrInvalidTimeCondition, h)
       ELSE IF isBoundOperator(expr.Name)
       THEN IF leavesInPlace(expr.Name, isParsingStartTime, isTimeOnLeft, isTimeOnRight)
            THEN Ret(c, ZERO_TIME, NoErr, h)
            ELSE consumedCase(h, timeExpression, now)
       ELSE IF expr.Name = s_eq
       THEN equalityCase(h, c, timeExpression, now)
       ELSE Ret(NIL, ZERO_TIME, ErrCannotUseTimeWith, h)

\* the check made on the wrong operation
orConflictOnAnd(operation, timeLeft, timeRight) ==
    operation = s_AND /\ (timeLeft # ZERO_TIME \/ timeRight # ZERO_TIME)

\* lines 448-451: the OR check
orConflict(operation, timeLeft, timeRight) ==
    operation = s_OR /\ (timeLeft # ZERO_TIME \/ timeRight # ZERO_TIME)

\* the node kept whatever its sides reduced to
rebuildNeverCollapses(h, c, newLeftCondition, newRightCondition) ==
    [cond |-> c,
     heap |-> [h EXCEPT ![c].Left = newLeftCondition,
                        ![c].Right = newRightCondition]]

\* a node one of whose sides reduced to nil loses both its sides
rebuildClearsCollapsed(h, c, newLeftCondition, newRightCondition) ==
    IF newLeftCondition = NIL
    THEN [cond |-> newRightCondition,
          heap |-> [h EXCEPT ![c].Left = NIL, ![c].Right = NIL]]
    ELSE IF newRightCondition = NIL
    THEN [cond |-> newLeftCondition,
          heap |-> [h EXCEPT ![c].Left = NIL, ![c].Right = NIL]]
    ELSE [cond |-> c,
          heap |-> [h EXCEPT ![c].Left = newLeftCondition,
                             ![c].Right = newRightCondition]]

\* lines 453-461: the returned condition; the else branch stores through
\* the pointer newCondition, which is the node condition itself
rebuild(h, c, newLeftCondition, newRightCondition) ==
    IF newLeftCondition = NIL
    THEN [cond |-> newRightCondition, heap |-> h]
    ELSE IF newRightCondition = NIL
    THEN [cond |-> newLeftCondition, heap |-> h]
    ELSE [cond |-> c,
          heap |-> [h EXCEPT ![c].Left = newLeftCondition,
                             ![c].Right = newRightCondition]]

\* lines 463-475: the time of an interior node; Time.Unix() is the second
combineTimes(isParsingStartTime, timeLeft, timeRight) ==
    IF timeLeft = ZERO_TIME THEN timeRight
    ELSE IF timeRight = ZERO_TIME THEN timeLeft
    ELSE IF isParsingStartTime /\ timeLeft.sec < timeRight.sec THEN timeLeft
    ELSE IF ~isParsingStartTime /\ timeLeft.sec > timeRight.sec THEN timeLeft
    ELSE timeRight

RECURSIVE getTime(_, _, _, _)
\* the error of the right side dropped: the node is rebuilt from the left
\* side alone
getTimeRightErrorDropped(h, c, isParsingStartTime, now) ==
    IF c = NIL THEN Ret(NIL, ZERO_TIME, NoErr, h)
    ELSE IF h[c].isBooleanExpression THEN getTimeLeaf(h, c, isParsingStartTime, now)
    ELSE
    LET l == getTime(h, h[c].Left, isParsingStartTime, now) IN
    IF l.err # NoErr THEN Ret(NIL, ZERO_TIME, l.err, l.heap)
    ELSE
    LET r == getTime(l.heap, l.heap[c].Right, isParsingStartTime, now) IN
    IF r.err # NoErr THEN Ret(l.cond, l.time, NoErr, r.heap)
    ELSE IF orConflict(r.heap[c].Operation, l.time, r.time)
    THEN Ret(NIL, ZERO_TIME, ErrOrTime, r.heap)
    ELSE LET new == rebuild(r.heap, c, l.cond, r.cond)
         IN Ret(new.cond, combineTimes(isParsingStartTime, l.time, r.time),
                NoErr, new.heap)

\* lines 358-476
getTime(h, c, isParsingStartTime, now) ==
    IF c = NIL THEN Ret(NIL, ZERO_TIME, NoErr, h)
    ELSE IF h[c].isBooleanExpression THEN getTimeLeaf(h, c, isParsingStartTime, now)
    ELSE
    LET l == getTime(h, h[c].Left, isParsingStartTime, now) IN
    IF l.err # NoErr THEN Ret(NIL, ZERO_TIME, l.err, l.heap)
    ELSE
    LET r == getTime(l.heap, l.heap[c].Right, isParsingStartTime, now) IN
    IF r.err # NoErr THEN Ret(NIL, ZERO_TIME, r.err, r.heap)
    ELSE IF orConflict(r.heap[c].Operation, l.time, r.time)
    THEN Ret(NIL, ZERO_TIME, ErrOrTime, r.heap)
    ELSE LET new == rebuild(r.heap, c, l.cond, r.cond)
         IN Ret(new.cond, combineTimes(isParsingStartTime, l.time, r.time),
                NoErr, new.heap)

----------------------------------------------------------------------------
(* Go maps from strings to string slices, as functions on their key set *)

EmptyMap == [k \in {} |-> <<>>]

\* m[k], the empty slice for a missing key
Get(m, k) == IF k \in DOMAIN m THEN m[k] ELSE <<>>

\* m[k] = v
Put(m, k, v) == [x \in (DOMAIN m) \cup {k} |-> IF x = k THEN v ELSE m[x]]

\* delete(m, k)
Delete(m, k) == [x \in (DOMAIN m) \ {k} |-> m[x]]

\* the orders in which a Go range statement can visit the finite set S
Perms(S) ==
    { p \in [1..Cardinality(S) -> S] :
        \A i, j \in 1..Cardinality(S) : i # j => p[i] # p[j] }

Range(s) == { s[i] : i \in 1..Len(s) }

----------------------------------------------------------------------------
(* Strings: order, search and sorting *)

RECURSIVE StrLess(_, _)
\* s < t for Go strings: byte-wise lexicographic
StrLess(s, t) ==
    IF t = <<>> THEN FALSE
    ELSE IF s = <<>> THEN TRUE
    ELSE IF s[1] # t[1] THEN s[1] < t[1]
    ELSE StrLess(Tail(s), Tail(t))

\* strings.LastIndex(s, "."), counted from 1; 0 when there is no "."
LastIndexDot(s) ==
    IF \E i \in 1..Len(s) : s[i] = 46
    THEN CHOOSE i \in 1..Len(s) : s[i] = 46 /\ \A j \in (i + 1)..Len(s) : s[j] # 46
    ELSE 0

RECURSIVE SortStrings(_)
\* sort.Strings applied to the elements of a set
SortStrings(S) ==
    IF S = {} THEN <<>>
    ELSE LET least == CHOOSE x \in S : \A y \in S \ {x} : StrLess(x, y)
         IN <<least>> \o SortStrings(S \ {least})

\* lines 19-31
uniq(slice) == SortStrings(Range(slice))

----------------------------------------------------------------------------
(* The column-reference resolver *)

s_star == <<42>>

RECURSIVE getReferencedColumnsFromValue(_, _)
RECURSIVE fromElems(_, _, _, _)

\* lines 278-285: the loop over v.Elems
fromElems(elems, i, mapping, notAssigned) ==
    IF i > Len(elems) THEN [notAssigned |-> notAssigned, mapping |-> mapping]
    ELSE LET sub == getReferencedColumnsFromValue(elems[i], mapping)
             newNotAssignedColumns ==
                 IF Len(sub.notAssigned) > 0 /\ sub.notAssigned[1] = s_star
                 THEN Tail(sub.notAssigned)
                 ELSE sub.notAssigned
         IN fromElems(elems, i + 1, sub.mapping, notAssigned \o newNotAssignedColumns)

\* lines 265-288
getReferencedColumnsFromValue(v, mapping) ==
    IF v.Type \in {"ValueSimpleName", "ValueTableName"}
    THEN LET idx == LastIndexDot(v.Name) IN
         IF idx # 0
         THEN LET tableName == SubSeq(v.Name, 1, idx - 1)
                  columnName == SubSeq(v.Name, idx + 1, Len(v.Name))
              IN [notAssigned |-> <<>>,
                  mapping |-> Put(mapping, tableName,
                                  Append(Get(mapping, tableName), columnName))]
         ELSE [notAssigned |-> <<v.Name>>, mapping |-> mapping]
    ELSE IF v.Type = "ValueWildcard"
    THEN [notAssigned |-> <<s_star>>, mapping |-> mapping]
    ELSE IF v.Type \in {"ValueExpression", "ValueFunctionCall"}
    THEN fromElems(v.Elems, 1, mapping, <<>>)
    ELSE [notAssigned |-> <<>>, mapping |-> mapping]

RECURSIVE getReferencedColumnsFromCondition(_, _, _)
\* lines 290-300
getReferencedColumnsFromCondition(h, c, mapping) ==
    IF ~h[c].isBooleanExpression
    THEN LET l == getReferencedColumnsFromCondition(h, h[c].Left, mapping)
             r == getReferencedColumnsFromCondition(h, h[c].Right, l.mapping)
         IN [notAssigned |-> l.notAssigned \o r.notAssigned, mapping |-> r.mapping]
    ELSE getReferencedColumnsFromValue(h[c].expr, mapping)

RECURSIVE fromValues(_, _, _, _, _)
\* lines 114-119 and 126-128: the loops over the projected columns (which
\* skip time and sequence_number) and over the GROUP BY elements
fromValues(values, i, skipTime, mapping, notPrefixedColumns) ==
    IF i > Len(values)
    THEN [notAssigned |-> notPrefixedColumns, mapping |-> mapping]
    ELSE IF skipTime /\ (values[i].Name = s_time \/ values[i].Name = s_sequence_number)
    THEN fromValues(values, i + 1, skipTime, mapping, notPrefixedColumns)
    ELSE LET sub == getReferencedColumnsFromValue(values[i], mapping)
         IN fromValues(values, i + 1, skipTime, sub.mapping,
                       notPrefixedColumns \o sub.notAssigned)

\* lines 111-131: the unprefixed columns and the prefix mapping of a query
collectColumns(q, h, c) ==
    LET cols == fromValues(q.columnNames, 1, TRUE, EmptyMap, <<>>)
        where == IF ~q.isSinglePointQuery /\ c # NIL
                 THEN getReferencedColumnsFromCondition(h, c, cols.mapping)
                 ELSE [notAssigned |-> <<>>, mapping |-> cols.mapping]
        group == IF ~q.isSinglePointQuery
                 THEN fromValues(q.groupByClause, 1, FALSE, where.mapping, <<>>)
                 ELSE [notAssigned |-> <<>>, mapping |-> where.mapping]
    IN [notPrefixedColumns |->
            uniq(cols.notAssigned \o where.notAssigned \o group.notAssigned),
        mapping |-> group.mapping]

RECURSIVE revertAliasTables(_, _, _, _)
\* lines 81-98: move the columns of every alias under the table's name
revertAliasTables(names, i, mapping, columns) ==
    IF i > Len(names) THEN [mapping |-> mapping, columns |-> columns]
    ELSE LET name == names[i].Name.Name
             alias == IF names[i].Alias # <<>> THEN names[i].Alias ELSE name
             found == Range(Get(mapping, alias))
             columns1 == IF found = {} THEN columns
                         ELSE Put(columns, name,
                                  (IF name \in DOMAIN columns THEN columns[name] ELSE {})
                                  \cup found)
         IN revertAliasTables(names, i + 1, Delete(mapping, alias), columns1)

\* the aliases left as they are
revertAliasSkipped(mapping, fromClause) == { mapping }

\* lines 73-106: the mappings revertAlias can leave; the lists of lines
\* 100-105 are filled in map iteration order, so any order can result
revertAlias(mapping, fromClause) ==
    IF fromClause.Type # "FromClauseInnerJoin" THEN { mapping }
    ELSE LET done == revertAliasTables(fromClause.Names, 1, mapping, EmptyMap)
             tables == DOMAIN done.columns
             orders == UNION { Perms(done.columns[t]) : t \in tables }
         IN { [k \in (DOMAIN done.mapping) \cup tables |->
                  IF k \in tables THEN f[k] ELSE done.mapping[k]] :
              f \in { g \in [tables -> orders] :
                        \A t \in tables : Range(g[t]) = done.columns[t]
                                          /\ Len(g[t]) = Cardinality(done.columns[t]) } }

\* GetCompiledRegex succeeds on a regex value
IsRegex(value) == value.Type = "ValueRegex"

\* lines 152-155: the list of a table that is not a regex
tableColumns(mapped, notPrefixedColumns) ==
    LET all == uniq(mapped \o notPrefixedColumns)
    IN IF Len(all) > 1 /\ all[1] = s_star THEN SubSeq(all, 1, 1) ELSE all

RECURSIVE fromClauseTables(_, _, _, _, _, _)
\* lines 135-158: one entry per from-clause table, keyed by the position of
\* its Value in the from clause
fromClauseTables(names, i, mapping, notPrefixedColumns, addedTables, returnedMapping) ==
    IF i > Len(names) THEN [returnedMapping |-> returnedMapping, mapping |-> mapping]
    ELSE IF IsRegex(names[i].Name)
    THEN fromClauseTables(names, i + 1, mapping, notPrefixedColumns, addedTables,
                          Put(returnedMapping, i, notPrefixedColumns))
    ELSE IF names[i].Name.Name \in addedTables
    THEN fromClauseTables(names, i + 1, mapping, notPrefixedColumns, addedTables,
                          returnedMapping)
    ELSE fromClauseTables(names, i + 1, Delete(mapping, names[i].Name.Name),
                          notPrefixedColumns, addedTables \cup {names[i].Name.Name},
                          Put(returnedMapping, i,
                              tableColumns(Get(mapping, names[i].Name.Name),
                                           notPrefixedColumns)))

\* lines 168-173: one leftover name goes onto every list it is not skipped for
attachLeftover(returnedMapping, dotted) ==
    [table \in DOMAIN returnedMapping |->
        IF Len(returnedMapping[table]) > 1 /\ returnedMapping[table][1] = s_star
        THEN returnedMapping[table]
        ELSE Append(returnedMapping[table], dotted)]

RECURSIVE attachColumns(_, _, _, _)
\* lines 167-174: the columns of one leftover prefix
attachColumns(returnedMapping, prefix, columnNames, i) ==
    IF i > Len(columnNames) THEN returnedMapping
    ELSE attachColumns(attachLeftover(returnedMapping,
                                      prefix \o <<46>> \o columnNames[i]),
                       prefix, columnNames, i + 1)

RECURSIVE attachPrefixes(_, _, _, _)
\* lines 166-176: the leftover prefixes in the order the range visits them
attachPrefixes(returnedMapping, mapping, order, i) ==
    IF i > Len(order) THEN returnedMapping
    ELSE attachPrefixes(attachColumns(returnedMapping, order[i], mapping[order[i]], 1),
                        mapping, order, i + 1)

\* lines 160-178: the mappings the leftover fallback can return
leftoverFallback(returnedMapping, mapping) ==
    IF DOMAIN mapping = {} THEN { returnedMapping }
    ELSE { attachPrefixes(returnedMapping, mapping, order, 1) :
              order \in Perms(DOMAIN mapping) }

\* lines 110-179: the mappings GetReferencedColumns can return for query q
\* whose WHERE condition is c
GetReferencedColumns(q, h, c) ==
    LET collected == collectColumns(q, h, c)
    IN UNION { LET tables == fromClauseTables(q.fromClause.Names, 1, reverted,
                                               collected.notPrefixedColumns, {},
                                               [k \in {} |-> <<>>])
               IN leftoverFallback(tables.returnedMapping, tables.mapping) :
               reverted \in revertAlias(collected.mapping, q.fromClause) }

----------------------------------------------------------------------------
(* The generated WHERE conditions *)

TimeName == SimpleName(s_time)

WhereLeaves ==
    { Expression(s_gt, TimeName, Duration(<<48, 117>>)),
      Expression(s_gt, TimeName, Duration(s_1u)),
      Expression(s_lt, Duration(s_1s), TimeName),
      Expression(s_lt, TimeName, Duration(s_1u)),
      Expression(s_lt, TimeName, Duration(s_2u)),
      Expression(s_gt, Duration(s_2s), TimeName),
      Expression(s_eq, TimeName, Duration(s_1u)),
      Expression(s_eq, SimpleName(s_host), StringLit(s_srv1)) }

\* the nodes of r moved k places up the heap
Shift(r, k) ==
    [i \in 1..Len(r) |->
        IF r[i].isBooleanExpression THEN r[i]
        ELSE [r[i] EXCEPT !.Left = @ + k, !.Right = @ + k]]

\* the heap of "l op r": the nodes of l, the nodes of r, then the root
Join(op, l, r) ==
    l \o Shift(r, Len(l)) \o <<InteriorNode(op, Len(l), Len(l) + Len(r))>>

RECURSIVE Skeletons(_)
\* the heaps of all condition trees with n leaves, the comparisons left
\* blank; the root is the last node
Skeletons(n) ==
    IF n = 1 THEN { <<LeafNode(NoValue)>> }
    ELSE UNION { { Join(op, l, r) :
                      op \in {s_AND, s_OR}, l \in Skeletons(k), r \in Skeletons(n - k) } :
                 k \in 1..(n - 1) }

\* the skeleton with its leaves, in heap order, holding the comparisons
Fill(skeleton, leaves) ==
    [i \in 1..Len(skeleton) |->
        IF skeleton[i].isBooleanExpression
        THEN LeafNode(leaves[Cardinality({ j \in 1..i : skeleton[j].isBooleanExpression })])
        ELSE skeleton[i]]

\* the readings of time.Now().UnixNano()
Clock == { Second + 500 }

----------------------------------------------------------------------------
(* State machine *)

NotRun == [done |-> FALSE, cond |-> NIL, time |-> ZERO_TIME, err |-> NoErr]

Result(r) == [done |-> TRUE, cond |-> r.cond, time |-> r.time, err |-> r.err]

NotResolved == [done |-> FALSE, mapping |-> EmptyMap]

NotParsed == [done |-> FALSE, now |-> 0, val |-> 0, err |-> NoErr]

mkQuery(fromClause, columnNames, groupByClause, isSinglePointQuery) ==
    [fromClause |-> fromClause, columnNames |-> columnNames,
     groupByClause |-> groupByClause, isSinglePointQuery |-> isSinglePointQuery]

mkFrom(type, names) == [Type |-> type, Names |-> names]

mkTable(name, alias) == [Name |-> name, Alias |-> alias]

\* select value from a
PlainQuery ==
    mkQuery(mkFrom("FromClauseArray", <<mkTable(TableName(s_a), <<>>)>>),
            <<SimpleName(s_value)>>, <<>>, FALSE)

\* a query with a generated WHERE condition
Init ==
    /\ \E n \in 1..MaxLeaves : \E skeleton \in Skeletons(n) :
          \E leaves \in [1..n -> WhereLeaves] :
             /\ heap = Fill(skeleton, leaves)
             /\ parsed = heap
             /\ condition = Len(skeleton)
    /\ query = PlainQuery
    /\ startResult = NotRun
    /\ endResult = NotRun
    /\ columnsResult = NotResolved
    /\ parseTimeValue = NoValue
    /\ parseTimeResult = NotParsed

\* the start pass: getTime(condition, true)
ParseStartTime ==
    /\ ~startResult.done
    /\ \E now \in Clock :
          LET r == getTime(heap, condition, TRUE, now)
          IN /\ startResult' = Result(r)
             /\ heap' = r.heap
    /\ UNCHANGED <<parsed, condition, query, endResult, columnsResult,
                   parseTimeValue, parseTimeResult>>

\* the end pass: getTime(condition, false)
ParseEndTime ==
    /\ ~endResult.done
    /\ \E now \in Clock :
          LET r == getTime(heap, condition, FALSE, now)
          IN /\ endResult' = Result(r)
             /\ heap' = r.heap
    /\ UNCHANGED <<parsed, condition, query, startResult, columnsResult,
                   parseTimeValue, parseTimeResult>>

Next == ParseStartTime \/ ParseEndTime

Spec == Init /\ [][Next]_vars

----------------------------------------------------------------------------
(* WHERE conditions with malformed leaves *)

\* comparisons of time with an operator that is no bound, comparisons of
\* time with time, bare literals, a function call, and well-formed leaves
ErrorLeaves ==
    { Expression(s_ne, TimeName, Duration(s_1u)),
      Expression(s_ne, Duration(s_1s), TimeName),
      Expression(s_ne, TimeName, FunctionCall(s_now, <<>>)),
      Expression(s_gt, TimeName, TimeName),
      Expression(s_eq, TimeName, TimeName),
      IntLit(s_1),
      StringLit(s_srv1),
      Wildcard,
      FunctionCall(s_count, <<Wildcard>>),
      Expression(s_gt, TimeName, Duration(s_1u)),
      Expression(s_lt, TimeName, Duration(s_2u)),
      Expression(s_eq, SimpleName(s_host), StringLit(s_srv1)) }

InitErrors ==
    /\ \E n \in 1..MaxErrorLeaves : \E skeleton \in Skeletons(n) :
          \E leaves \in [1..n -> ErrorLeaves] :
             /\ heap = Fill(skeleton, leaves)
             /\ parsed = heap
             /\ condition = Len(skeleton)
    /\ query = PlainQuery
    /\ startResult = NotRun
    /\ endResult = NotRun
    /\ columnsResult = NotResolved
    /\ parseTimeValue = NoValue
    /\ parseTimeResult = NotParsed

ErrorSpec == InitErrors /\ [][Next]_vars

----------------------------------------------------------------------------
(* Time expressions given to parseTime *)

\* now(), another function call, durations and a string that is no date
TimeAtoms ==
    { FunctionCall(s_now, <<>>), FunctionCall(s_count, <<Wildcard>>),
      Duration(s_1u), Duration(s_2u), StringLit(s_srv1) }

TimeOperators == { s_plus, s_minus, s_times }

RECURSIVE ClockFree(_)
\* the expressions of depth d and less that do not call now()
ClockFree(d) ==
    IF d = 0 THEN TimeAtoms \ { FunctionCall(s_now, <<>>) }
    ELSE ClockFree(d - 1)
         \cup { Expression(op, l, r) :
                  op \in TimeOperators, l \in ClockFree(d - 1), r \in ClockFree(d - 1) }

RECURSIVE TimeExpressions(_)
\* the expressions of depth d and less that call now() at most once, so
\* that no sum leaves the range of the model's integers
TimeExpressions(d) ==
    IF d = 0 THEN TimeAtoms
    ELSE TimeExpressions(d - 1)
         \cup { Expression(op, l, r) :
                  op \in TimeOperators, l \in TimeExpressions(d - 1), r \in ClockFree(d - 1) }
         \cup { Expression(op, l, r) :
                  op \in TimeOperators, l \in ClockFree(d - 1), r \in TimeExpressions(d - 1) }

InitEval ==
    /\ parseTimeValue \in TimeExpressions(MaxDepth)
    /\ parseTimeResult = NotParsed
    /\ heap = <<>>
    /\ parsed = <<>>
    /\ condition = NIL
    /\ query = PlainQuery
    /\ startResult = NotRun
    /\ endResult = NotRun
    /\ columnsResult = NotResolved

\* parseTime(parseTimeValue)
ParseTime ==
    /\ ~parseTimeResult.done
    /\ \E now \in Clock :
          LET r == parseTime(parseTimeValue, now)
          IN parseTimeResult' = [done |-> TRUE, now |-> now, val |-> r.val, err |-> r.err]
    /\ UNCHANGED <<heap, parsed, condition, query, startResult, endResult,
                   columnsResult, parseTimeValue>>

NextEval == ParseTime

EvalSpec == InitEval /\ [][NextEval]_vars

----------------------------------------------------------------------------
(* The generated select queries *)

Tables ==
    { mkTable(TableName(s_a), <<>>), mkTable(TableName(s_a), s_x),
      mkTable(TableName(s_b), s_y), mkTable(Regex(s_regex), <<>>) }

SeqsUpTo(S, lo, hi) == UNION { [1..n -> S] : n \in lo..hi }

FromClauses ==
    { mkFrom("FromClauseArray", names) : names \in SeqsUpTo(Tables, 1, MaxTables) }
    \cup { mkFrom("FromClauseInnerJoin", names) : names \in SeqsUpTo(Tables, 2, MaxTables) }

ColumnValues ==
    { SimpleName(s_value), SimpleName(s_x_host), SimpleName(s_c_d), Wildcard,
      SimpleName(s_time), FunctionCall(s_count, <<Wildcard>>) }

HostLeaf == LeafNode(Expression(s_eq, SimpleName(s_x_host), StringLit(s_srv1)))
DottedLeaf == LeafNode(Expression(s_eq, SimpleName(s_c_d), StringLit(s_srv1)))
TimeLeaf == LeafNode(Expression(s_gt, TimeName, Duration(s_1u)))
TimeEqLeaf == LeafNode(Expression(s_eq, TimeName, Duration(s_1u)))
SequenceLeaf == LeafNode(Expression(s_eq, SimpleName(s_sequence_number), IntLit(s_1)))

\* the WHERE conditions of the generated select queries: none, one
\* comparison, or a comparison and a time bound
SelectWheres ==
    { <<>>, <<HostLeaf>>, <<DottedLeaf>>, Join(s_AND, <<HostLeaf>>, <<TimeLeaf>>) }

\* where time = 1u and sequence_number = 1
SinglePointWhere == Join(s_AND, <<TimeEqLeaf>>, <<SequenceLeaf>>)

GroupBys == { <<>>, <<SimpleName(s_host)>> }

InitSelect ==
    /\ \E h \in SelectWheres \cup {SinglePointWhere} :
          /\ heap = h
          /\ parsed = h
          /\ condition = Len(h)
          /\ \E f \in FromClauses, cols \in SeqsUpTo(ColumnValues, 1, MaxColumns),
                g \in GroupBys :
                query = mkQuery(f, cols, g, h = SinglePointWhere)
    /\ startResult = NotRun
    /\ endResult = NotRun
    /\ columnsResult = NotResolved
    /\ parseTimeValue = NoValue
    /\ parseTimeResult = NotParsed

\* GetReferencedColumns on the query
ResolveColumns ==
    /\ ~columnsResult.done
    /\ \E m \in GetReferencedColumns(query, heap, condition) :
          columnsResult' = [done |-> TRUE, mapping |-> m]
    /\ UNCHANGED <<heap, parsed, condition, query, startResult, endResult,
                   parseTimeValue, parseTimeResult>>

NextSelect == ResolveColumns

SelectSpec == InitSelect /\ [][NextSelect]_vars

----------------------------------------------------------------------------
(* Vocabulary of the properties *)

\* the root of the condition as the parser built it
Root == parsed[condition]

\* pass b (TRUE the start pass, FALSE the end pass) is the only pass that has
\* run, so it ran on the heap as parsed
OnlyPass(b) ==
    IF b THEN startResult.done /\ ~endResult.done
         ELSE endResult.done /\ ~startResult.done

PassResult(b) == IF b THEN startResult ELSE endResult

IsTimeLiteralLeaf(node, ops) ==
    /\ node.isBooleanExpression
    /\ node.expr.Type = "ValueExpression"
    /\ node.expr.Name \in ops
    /\ \/ node.expr.Elems[1] = TimeName /\ node.expr.Elems[2].Type = "ValueDuration"
       \/ node.expr.Elems[2] = TimeName /\ node.expr.Elems[1].Type = "ValueDuration"

\* the literal T of a leaf "time op T" or "T op time", in nanoseconds
LiteralOf(node) ==
    IF node.expr.Elems[1] = TimeName
    THEN ParseTimeDuration(node.expr.Elems[2].Name).val
    ELSE ParseTimeDuration(node.expr.Elems[1].Name).val

\* the pass consumed the leaf: no condition is left and the time is T
Consumed(res, node) ==
    /\ res.err = NoErr
    /\ res.cond = NIL
    /\ UnixNano(res.time) = LiteralOf(node)
    /\ res.time.nsec \in 0..(Second - 1)

\* the pass left the leaf in place
LeftInPlace(res) ==
    /\ res.err = NoErr
    /\ res.cond = condition
    /\ res.time = ZERO_TIME

\* the times the two sides of the root yield to pass b, each on its own
SideLeft(b, now) == getTime(parsed, Root.Left, b, now)
SideRight(b, now) == getTime(parsed, Root.Right, b, now)

BothSidesYield(b, now) ==
    /\ SideLeft(b, now).err = NoErr /\ SideLeft(b, now).time # ZERO_TIME
    /\ SideRight(b, now).err = NoErr /\ SideRight(b, now).time # ZERO_TIME

OneSideYields(b, now) ==
    /\ SideLeft(b, now).err = NoErr
    /\ SideRight(b, now).err = NoErr
    /\ (SideLeft(b, now).time # ZERO_TIME) # (SideRight(b, now).time # ZERO_TIME)

Earlier(t1, t2) == IF UnixNano(t1) <= UnixNano(t2) THEN t1 ELSE t2
Later(t1, t2) == IF UnixNano(t1) >= UnixNano(t2) THEN t1 ELSE t2

----------------------------------------------------------------------------
(* Properties *)

\* C1: on the single leaf "time > T" the start pass returns (nil, T) and the
\* end pass returns (the leaf, ZERO_TIME); "T > time" and "time < T" are end
\* bounds and "T < time" is a start bound, consumed only by the matching pass.
C1_LeafBound ==
    IsTimeLiteralLeaf(Root, {s_gt, s_lt}) =>
        LET isStartBound == (Root.expr.Name = s_gt) = (Root.expr.Elems[1] = TimeName)
        IN /\ startResult.done =>
                IF isStartBound THEN Consumed(startResult, Root)
                                ELSE LeftInPlace(startResult)
           /\ endResult.done =>
                IF isStartBound THEN LeftInPlace(endResult)
                                ELSE Consumed(endResult, Root)
           /\ heap = parsed

C1_Witness ==
    /\ Root.isBooleanExpression
    /\ Root.expr = Expression(s_gt, TimeName, Duration(s_1u))
    /\ startResult.done /\ startResult.cond = NIL /\ UnixNano(startResult.time) = 1000
    /\ endResult.done /\ endResult.cond = condition

\* C2: on the single leaf "time = T" both passes return a nil condition and
\* the timestamp T.
C2_EqualityConsumed ==
    IsTimeLiteralLeaf(Root, {s_eq}) =>
        /\ startResult.done => Consumed(startResult, Root)
        /\ endResult.done => Consumed(endResult, Root)

\* C3: no pass writes to a node of the tree: the heap stays as parsed.
C3_NoMutation == heap = parsed

\* C4: when getTime runs on "A OR B" and both sides yield a non-zero time to
\* that pass, it fails with the OR error and returns no condition and ZERO_TIME.
C4_OrConflict ==
    [][\A b \in BOOLEAN : \A now \in Clock :
        ( /\ ~PassResult(b).done
          /\ IF b THEN startResult'.done ELSE endResult'.done
          /\ ~heap[condition].isBooleanExpression
          /\ heap[condition].Operation = s_OR
          /\ LET l == getTime(heap, heap[condition].Left, b, now)
                 r == getTime(heap, heap[condition].Right, b, now)
             IN /\ l.err = NoErr /\ l.time # ZERO_TIME
                /\ r.err = NoErr /\ r.time # ZERO_TIME )
        => LET res == IF b THEN startResult' ELSE endResult'
           IN res.err = ErrOrTime /\ res.cond = NIL /\ res.time = ZERO_TIME]_vars

C4_Witness ==
    /\ ~Root.isBooleanExpression
    /\ Root.Operation = s_OR
    /\ OnlyPass(TRUE)
    /\ \A now \in Clock : BothSidesYield(TRUE, now)
    /\ startResult.err = ErrOrTime

\* C5: when exactly one side of "A OR B" yields a non-zero time to the
\* pass, the pass succeeds and returns that time.
C5_OrOneSide ==
    \A b \in BOOLEAN : \A now \in Clock :
        ( /\ OnlyPass(b)
          /\ ~Root.isBooleanExpression
          /\ Root.Operation = s_OR
          /\ OneSideYields(b, now) )
        => /\ PassResult(b).err = NoErr
           /\ PassResult(b).time =
                 IF SideLeft(b, now).time # ZERO_TIME THEN SideLeft(b, now).time
                                                     ELSE SideRight(b, now).time

\* C6: on "A AND B" with both sides yielding a non-zero time, the start
\* pass returns the earlier and the end pass the later of the two instants.
C6_AndPicksBound ==
    \A b \in BOOLEAN : \A now \in Clock :
        ( /\ OnlyPass(b)
          /\ ~Root.isBooleanExpression
          /\ Root.Operation = s_AND
          /\ BothSidesYield(b, now) )
        => /\ PassResult(b).err = NoErr
           /\ UnixNano(PassResult(b).time) =
                 UnixNano(IF b THEN Earlier(SideLeft(b, now).time, SideRight(b, now).time)
                               ELSE Later(SideLeft(b, now).time, SideRight(b, now).time))

\* C7: when both passes succeed with a non-zero time, startTime <= endTime.
C7_StartBeforeEnd ==
    ( /\ startResult.done /\ startResult.err = NoErr /\ startResult.time # ZERO_TIME
      /\ endResult.done /\ endResult.err = NoErr /\ endResult.time # ZERO_TIME )
    => UnixNano(startResult.time) <= UnixNano(endResult.time)

\* one operand of the comparison is the identifier time, whatever the
\* other operand is
IsTimeComparison(node) ==
    /\ node.isBooleanExpression
    /\ node.expr.Type = "ValueExpression"
    /\ TimeName \in { node.expr.Elems[1], node.expr.Elems[2] }

Failed(res, err) == res.err = err /\ res.cond = NIL /\ res.time = ZERO_TIME

\* C11: on a single leaf that compares time with an operator other than
\* ">", "<" and "=", both passes fail with the "Cannot use time with" error
\* and return no condition and ZERO_TIME.
C11_OtherOperator ==
    (IsTimeComparison(Root) /\ Root.expr.Name \notin {s_gt, s_lt, s_eq}) =>
        /\ startResult.done => Failed(startResult, ErrCannotUseTimeWith)
        /\ endResult.done => Failed(endResult, ErrCannotUseTimeWith)

C11_Witness ==
    /\ Root.isBooleanExpression
    /\ Root.expr = Expression(s_ne, TimeName, Duration(s_1u))
    /\ startResult.done /\ startResult.err = ErrCannotUseTimeWith
    /\ endResult.done /\ endResult.err = ErrCannotUseTimeWith

\* C12: on a single leaf that compares time with time, both operands being
\* plain names, both passes fail with the "Invalid time condition" error.
C12_BothSidesTime ==
    ( /\ Root.isBooleanExpression
      /\ Root.expr.Type = "ValueExpression"
      /\ Root.expr.Elems[1] = TimeName
      /\ Root.expr.Elems[2] = TimeName ) =>
        /\ startResult.done => Failed(startResult, ErrInvalidTimeCondition)
        /\ endResult.done => Failed(endResult, ErrInvalidTimeCondition)

\* lines 364-365: the leaf is a literal, not a comparison
IsBareLiteral(node) ==
    /\ node.isBooleanExpression
    /\ node.expr.Type \in {"ValueDuration", "ValueFloat", "ValueInt", "ValueString",
                           "ValueWildcard"}

RECURSIVE Nodes(_, _)
\* the nodes of the tree under c; a node's children have smaller pointers,
\* and the nodes of its left side smaller pointers than those of its right
Nodes(h, c) ==
    IF c = NIL THEN {}
    ELSE IF h[c].isBooleanExpression THEN {c}
    ELSE {c} \cup Nodes(h, h[c].Left) \cup Nodes(h, h[c].Right)

\* pass b is taking its step
PassRuns(b) ==
    /\ ~PassResult(b).done
    /\ IF b THEN startResult'.done ELSE endResult'.done

\* C13 as stated: on a tree that holds a bare literal leaf anywhere, both
\* passes fail with the "Invalid where expression" error and return no
\* condition and ZERO_TIME.
C13_LiteralAlwaysInvalidWhere ==
    (\E k \in Nodes(parsed, condition) : IsBareLiteral(parsed[k])) =>
        /\ startResult.done => Failed(startResult, ErrInvalidWhere)
        /\ endResult.done => Failed(endResult, ErrInvalidWhere)

\* C13: a pass over a tree that holds a bare literal leaf fails and returns
\* no condition and ZERO_TIME.  The error is "Invalid where expression",
\* unless a node to the left of the literal fails on its own: the pass then
\* returns the error of such a node.
C13_LiteralFails ==
    [][\A b \in BOOLEAN : \A now \in Clock :
        ( /\ PassRuns(b)
          /\ \E k \in Nodes(heap, condition) : IsBareLiteral(heap[k]) )
        => LET res == IF b THEN startResult' ELSE endResult'
           IN /\ res.err # NoErr /\ res.cond = NIL /\ res.time = ZERO_TIME
              /\ \/ res.err = ErrInvalidWhere
                 \/ \A k \in Nodes(heap, condition) :
                       IsBareLiteral(heap[k]) =>
                          \E j \in Nodes(heap, condition) :
                             j < k /\ getTime(heap, j, b, now).err = res.err]_vars

\* host = 'srv1' AND 1: the error of the right side reaches the caller
C13_Witness ==
    /\ ~Root.isBooleanExpression
    /\ parsed[Root.Left].expr = Expression(s_eq, SimpleName(s_host), StringLit(s_srv1))
    /\ parsed[Root.Right].expr = IntLit(s_1)
    /\ startResult.done /\ Failed(startResult, ErrInvalidWhere)
    /\ endResult.done /\ Failed(endResult, ErrInvalidWhere)

\* what the start pass returns for the single leaf "time > E"
StartBoundOf(E, now) ==
    getTime(<<LeafNode(Expression(s_gt, TimeName, E))>>, 1, TRUE, now)

\* C14: on the single leaf "time = E" each pass returns the instant (or the
\* error) that the start pass returns for "time > E".
C14_EqualityUnscaled ==
    ( /\ Root.isBooleanExpression
      /\ Root.expr.Type = "ValueExpression"
      /\ Root.expr.Name = s_eq
      /\ Root.expr.Elems[1] = TimeName ) =>
        \A b \in BOOLEAN :
            PassResult(b).done =>
                \E now \in Clock :
                    /\ PassResult(b).err = StartBoundOf(Root.expr.Elems[2], now).err
                    /\ PassResult(b).time = StartBoundOf(Root.expr.Elems[2], now).time

\* the leaf is a bound of the kind pass b asks for: "time > T" and
\* "T < time" for the start pass, "time < T" and "T > time" for the end pass
Usable(node, b) ==
    /\ IsTimeLiteralLeaf(node, {s_gt, s_lt})
    /\ b = ((node.expr.Name = s_gt) = (node.expr.Elems[1] = TimeName))

NoTree == [kind |-> "nil"]

RECURSIVE Tree(_, _)
\* the condition under c as a value: its leaves and operations, not its
\* pointers
Tree(h, c) ==
    IF c = NIL THEN NoTree
    ELSE IF h[c].isBooleanExpression THEN [kind |-> "leaf", expr |-> h[c].expr]
    ELSE [kind |-> "node", op |-> h[c].Operation,
          left |-> Tree(h, h[c].Left), right |-> Tree(h, h[c].Right)]

RECURSIVE Stripped(_, _)
\* tree t without the leaves pass b consumes: a node one of whose sides
\* reduced to nothing is replaced by its other side
Stripped(t, b) ==
    IF t.kind = "nil" THEN NoTree
    ELSE IF t.kind = "leaf"
    THEN IF Usable(LeafNode(t.expr), b) THEN NoTree ELSE t
    ELSE LET l == Stripped(t.left, b)
             r == Stripped(t.right, b)
         IN IF l = NoTree THEN r
            ELSE IF r = NoTree THEN l
            ELSE [t EXCEPT !.left = l, !.right = r]

RECURSIVE LeafSeq(_)
\* the comparisons of a tree from left to right
LeafSeq(t) ==
    IF t.kind = "nil" THEN <<>>
    ELSE IF t.kind = "leaf" THEN <<t.expr>>
    ELSE LeafSeq(t.left) \o LeafSeq(t.right)

RECURSIVE Unconsumed(_, _)
\* the comparisons of the sequence that pass b does not consume, in order
Unconsumed(exprs, b) ==
    IF exprs = <<>> THEN <<>>
    ELSE IF Usable(LeafNode(Head(exprs)), b) THEN Unconsumed(Tail(exprs), b)
    ELSE <<Head(exprs)>> \o Unconsumed(Tail(exprs), b)

\* C16: when a pass succeeds, the condition it returns is the tree it was
\* given without the leaves it consumed: a node with a side reduced to nil
\* is replaced by its other side, the leaves that were not consumed are all
\* there in their order, and no leaf usable as the requested bound is left.
C16_Residual ==
    [][\A b \in BOOLEAN :
        LET res == IF b THEN startResult' ELSE endResult'
            residual == Tree(heap', res.cond)
        IN (PassRuns(b) /\ res.err = NoErr) =>
              /\ residual = Stripped(Tree(heap, condition), b)
              /\ LeafSeq(residual) = Unconsumed(LeafSeq(Tree(heap, condition)), b)
              /\ \A k \in Nodes(heap', res.cond) : ~Usable(heap'[k], b)]_vars

\* (time > 1u AND host = 'srv1') AND time < 2u
TwoBoundsTree ==
    [kind |-> "node", op |-> s_AND,
     left |-> [kind |-> "node", op |-> s_AND,
               left |-> [kind |-> "leaf",
                         expr |-> Expression(s_gt, TimeName, Duration(s_1u))],
               right |-> [kind |-> "leaf",
                          expr |-> Expression(s_eq, SimpleName(s_host),
                                              StringLit(s_srv1))]],
     right |-> [kind |-> "leaf",
                expr |-> Expression(s_lt, TimeName, Duration(s_2u))]]

\* on TwoBoundsTree the start pass returns host = 'srv1' AND time < 2u
C16_Witness ==
    /\ Tree(parsed, condition) = TwoBoundsTree
    /\ OnlyPass(TRUE)
    /\ startResult.err = NoErr
    /\ LeafSeq(Tree(heap, startResult.cond)) =
          <<Expression(s_eq, SimpleName(s_host), StringLit(s_srv1)),
            Expression(s_lt, TimeName, Duration(s_2u))>>

\* C17: parseTime gives the clock reading for now() and an error for any
\* other function call; for a binary expression it gives the error of a
\* child that fails, with the value 0, and when both children evaluate the
\* sum for "+", the difference for "-" and an error for any other operator.
C17_ParseTime ==
    parseTimeResult.done =>
        LET v == parseTimeValue
            res == parseTimeResult
        IN /\ (v.Type = "ValueFunctionCall" /\ v.Name = s_now) =>
                 res.val = res.now /\ res.err = NoErr
           /\ (v.Type = "ValueFunctionCall" /\ v.Name # s_now) =>
                 res.err = ErrInvalidFunction
           /\ v.Type = "ValueExpression" =>
                 LET l == parseTime(v.Elems[1], res.now)
                     r == parseTime(v.Elems[2], res.now)
                 IN IF l.err # NoErr \/ r.err # NoErr
                    THEN res.val = 0 /\ res.err \in {l.err, r.err} \ {NoErr}
                    ELSE IF v.Name = s_plus
                    THEN res.val = l.val + r.val /\ res.err = NoErr
                    ELSE IF v.Name = s_minus
                    THEN res.val = l.val - r.val /\ res.err = NoErr
                    ELSE res.err = ErrTimeExpression

\* now() - 1u is the clock reading less 1000 ns
C17_Witness ==
    /\ parseTimeValue = Expression(s_minus, FunctionCall(s_now, <<>>), Duration(s_1u))
    /\ parseTimeResult.done
    /\ parseTimeResult.err = NoErr
    /\ parseTimeResult.val = parseTimeResult.now - 1000

\* C18: after a start pass that succeeded, the end pass on the same root
\* returns the time, or the error, that it returns on the tree as parsed;
\* likewise for the start pass after an end pass that succeeded.
C18_PassOrder ==
    [][\A b \in BOOLEAN : \A now \in Clock :
        ( /\ PassRuns(b)
          /\ PassResult(~b).done
          /\ PassResult(~b).err = NoErr )
        => LET res == IF b THEN startResult' ELSE endResult'
               alone == getTime(parsed, condition, b, now)
           IN res.time = alone.time /\ res.err = alone.err]_vars

\* on TwoBoundsTree the start pass rewrites the root (the end pass writes
\* nothing), and the end pass on the rewritten root still returns 2u
C18_Witness ==
    /\ Tree(parsed, condition) = TwoBoundsTree
    /\ startResult.done /\ startResult.err = NoErr
    /\ UnixNano(startResult.time) = 1000
    /\ heap # parsed
    /\ endResult.done /\ endResult.err = NoErr
    /\ UnixNano(endResult.time) = 2000

----------------------------------------------------------------------------
(* Vocabulary of the column properties *)

Names == query.fromClause.Names

JoinQuery == query.fromClause.Type = "FromClauseInnerJoin"

\* the columns GetReferencedColumns returned for the from-clause entry i
Cols(i) == Range(columnsResult.mapping[i])

HasDot(name) == \E k \in 1..Len(name) : name[k] = 46

RECURSIVE Idents(_)
\* the identifiers that occur in a value
Idents(v) ==
    IF v.Type \in {"ValueSimpleName", "ValueTableName"} THEN { v.Name }
    ELSE UNION { Idents(v.Elems[k]) : k \in 1..Len(v.Elems) }

\* the identifiers the resolver consults: the projected columns other than
\* time and sequence_number and, unless the query is a single-point query,
\* the WHERE comparisons and the GROUP BY elements
ConsultedIdents ==
    UNION { Idents(v) : v \in { w \in Range(query.columnNames) :
                                   w.Name \notin {s_time, s_sequence_number} } }
    \cup (IF query.isSinglePointQuery THEN {}
          ELSE UNION { Idents(parsed[k].expr) :
                          k \in { j \in 1..Len(parsed) : parsed[j].isBooleanExpression } }
               \cup UNION { Idents(v) : v \in Range(query.groupByClause) })

\* the wildcard is projected (or grouped by) as such
StarProjected ==
    \/ Wildcard \in Range(query.columnNames)
    \/ ~query.isSinglePointQuery /\ Wildcard \in Range(query.groupByClause)

\* the unprefixed columns of the query
Unprefixed ==
    { n \in ConsultedIdents : ~HasDot(n) } \cup (IF StarProjected THEN {s_star} ELSE {})

\* the columns referenced as alias.column through an alias of table name
\* (the name itself when the table has no alias)
ViaAlias(name) ==
    { SubSeq(n, LastIndexDot(n) + 1, Len(n)) :
        n \in { d \in ConsultedIdents :
                  /\ HasDot(d)
                  /\ \E t \in Range(Names) :
                        /\ ~IsRegex(t.Name)
                        /\ t.Name.Name = name
                        /\ SubSeq(d, 1, LastIndexDot(d) - 1) =
                              (IF t.Alias # <<>> THEN t.Alias ELSE t.Name.Name) } }

\* entry i lists the columns referenced through its aliases and the
\* unprefixed columns, and no other undotted column
Attributed(i) ==
    /\ Unprefixed \subseteq Cols(i)
    /\ ~IsRegex(Names[i].Name) => ViaAlias(Names[i].Name.Name) \subseteq Cols(i)
    /\ \A c \in Cols(i) :
          ~HasDot(c) =>
             \/ c \in Unprefixed
             \/ ~IsRegex(Names[i].Name) /\ c \in ViaAlias(Names[i].Name.Name)

\* select value from a as x inner join b as y where x.host = 'srv1'
JoinExample ==
    /\ query = mkQuery(mkFrom("FromClauseInnerJoin",
                              <<mkTable(TableName(s_a), s_x), mkTable(TableName(s_b), s_y)>>),
                       <<SimpleName(s_value)>>, <<>>, FALSE)
    /\ parsed = <<HostLeaf>>
    /\ condition = 1

----------------------------------------------------------------------------
(* Column properties *)

\* C8: the list of a regex table holds no name of the form prefix.column.
C8_RegexUnprefixed ==
    columnsResult.done =>
        \A i \in DOMAIN columnsResult.mapping :
            IsRegex(Names[i].Name) => \A c \in Cols(i) : ~HasDot(c)

\* C9 as stated: for an inner join every table lists the columns referenced
\* through its alias, every unprefixed column, and no column of another alias.
C9_AliasRevertedAlways ==
    (columnsResult.done /\ JoinQuery) =>
        \A i \in DOMAIN columnsResult.mapping : Attributed(i)

\* C9: for an inner join every table lists the columns referenced through
\* its alias, every unprefixed column and no column of another alias, unless
\* the wildcard is among the unprefixed columns: the list of a table that is
\* not a regex is then collapsed to "*" and holds none of those columns.  The
\* example query yields {a: [host, value], b: [value]}.
C9_AliasReverted ==
    (columnsResult.done /\ JoinQuery) =>
        /\ \A i \in DOMAIN columnsResult.mapping :
              IF StarProjected /\ ~IsRegex(Names[i].Name)
              THEN /\ columnsResult.mapping[i][1] = s_star
                   /\ \A c \in Cols(i) : c = s_star \/ HasDot(c)
              ELSE Attributed(i)
        /\ JoinExample =>
              columnsResult.mapping = [i \in {1, 2} |->
                    IF i = 1 THEN <<s_host, s_value>> ELSE <<s_value>>]

C9_Witness ==
    /\ JoinExample
    /\ columnsResult.done
    /\ columnsResult.mapping[1] = <<s_host, s_value>>

\* C10: every list of the returned mapping is sorted in ascending string
\* order and has no duplicates.
C10_SortedUnique ==
    columnsResult.done =>
        \A i \in DOMAIN columnsResult.mapping :
            \A k \in 1..(Len(columnsResult.mapping[i]) - 1) :
                StrLess(columnsResult.mapping[i][k], columnsResult.mapping[i][k + 1])

\* the dotted names of a query without a join whose prefix is no table of
\* the from clause: the names the fallback re-attaches
Leftover ==
    { d \in ConsultedIdents :
        /\ HasDot(d)
        /\ \A t \in Range(Names) :
              IsRegex(t.Name) \/ t.Name.Name # SubSeq(d, 1, LastIndexDot(d) - 1) }

\* the list of entry i is ["*"] when the fallback starts
CollapsedToStar(i) ==
    IF IsRegex(Names[i].Name) THEN Unprefixed = {s_star} ELSE StarProjected

\* C15: when the fallback runs, a list that is ["*"] stays ["*"], and every
\* other list receives every leftover name.
C15_FallbackSkipsCollapsed ==
    (columnsResult.done /\ ~JoinQuery /\ Leftover # {}) =>
        \A i \in DOMAIN columnsResult.mapping :
            IF CollapsedToStar(i)
            THEN columnsResult.mapping[i] = <<s_star>>
            ELSE Leftover \subseteq Cols(i)

====
